---- MODULE Spec2Model ----
(***************************************************************************)
(* Album entity of the sunk Subsonic client (src/album.rs): the serde      *)
(* decode of an album JSON value, the two retrieval operations get_album   *)
(* and get_albums, and the hydration accessor Album::songs.                *)
(*                                                                         *)
(* Text that the code inspects character by character (JSON strings that   *)
(* are parsed to u64) is a sequence of one-character strings; text that    *)
(* the code only produces (request parameters) is a TLA+ string.           *)
(***************************************************************************)
EXTENDS Integers, Sequences, FiniteSets, TLC

VARIABLES held, call, sent, reply, result, decodes, nsongs

vars == <<held, call, sent, reply, result, decodes, nsongs>>

(***************************************************************************)
(* Bounds of the model.                                                    *)
(***************************************************************************)
\* longest nested `song` array of a payload
MaxSongs == 2
\* largest songCount a payload declares
MaxCount == 2
\* longest `album` array of a list response
MaxListLen == 2
\* largest value of an optional list-query argument
MaxArg == 0
\* most Album::songs calls made on one held Album
MaxSongsCalls == 2

(***************************************************************************)
(* Rust values: Option, Result, and a panic that unwinds out of the call.  *)
(***************************************************************************)
None == [some |-> FALSE]

Some(x) == [some |-> TRUE, v |-> x]

Ok(x) == [kind |-> "Ok", v |-> x]

Err(e) == [kind |-> "Err", e |-> e]

Panic == [kind |-> "Panic"]

NotReturned == [kind |-> "NotReturned"]

DecodeError == "DecodeError"

TransportErrors == {"TransportError(network)", "TransportError(server)"}

(***************************************************************************)
(* serde_json::Value.                                                      *)
(***************************************************************************)
JNull == [j |-> "null"]

JStr(s) == [j |-> "string", s |-> s]

JNum(n) == [j |-> "number", n |-> n]

JArr(a) == [j |-> "array", a |-> a]

JObj(o) == [j |-> "object", o |-> o]

(***************************************************************************)
(* str::parse::<u64>(): an optional leading '+', then at least one digit,  *)
(* nothing but digits, and a value of at most u64::MAX.  The overflow test *)
(* is done on the digits, so that no number beyond u64 is ever computed.   *)
(***************************************************************************)
Digits == {"0", "1", "2", "3", "4", "5", "6", "7", "8", "9"}

DigitVal(c) ==
    CASE c = "0" -> 0 [] c = "1" -> 1 [] c = "2" -> 2 [] c = "3" -> 3
      [] c = "4" -> 4 [] c = "5" -> 5 [] c = "6" -> 6 [] c = "7" -> 7
      [] c = "8" -> 8 [] c = "9" -> 9

\* u64::MAX = 18446744073709551615
U64MaxText == <<"1","8","4","4","6","7","4","4","0","7","3","7","0","9","5","5","1","6","1","5">>

RECURSIVE StripZeros(_)
StripZeros(s) ==
    IF Len(s) > 1 /\ s[1] = "0" THEN StripZeros(Tail(s)) ELSE s

RECURSIVE DigitsGreater(_, _)
DigitsGreater(a, b) ==
    IF Len(a) = 0 THEN FALSE
    ELSE IF DigitVal(a[1]) # DigitVal(b[1]) THEN DigitVal(a[1]) > DigitVal(b[1])
    ELSE DigitsGreater(Tail(a), Tail(b))

OverflowsU64(ds) ==
    LET t == StripZeros(ds)
    IN  \/ Len(t) > Len(U64MaxText)
        \/ Len(t) = Len(U64MaxText) /\ DigitsGreater(t, U64MaxText)

RECURSIVE DigitsValue(_)
DigitsValue(ds) ==
    IF Len(ds) = 0 THEN 0
    ELSE 10 * DigitsValue(SubSeq(ds, 1, Len(ds) - 1)) + DigitVal(ds[Len(ds)])

ParseU64(s) ==
    LET ds == IF Len(s) > 0 /\ s[1] = "+" THEN Tail(s) ELSE s
    IN  IF Len(ds) = 0 THEN [ok |-> FALSE]
        ELSE IF \E i \in 1..Len(ds) : ds[i] \notin Digits THEN [ok |-> FALSE]
        ELSE IF OverflowsU64(ds) THEN [ok |-> FALSE]
        ELSE [ok |-> TRUE, v |-> DigitsValue(ds)]

(***************************************************************************)
(* u64::to_string(): the decimal text of a number.                         *)
(***************************************************************************)
DigitChar(d) ==
    CASE d = 0 -> "0" [] d = 1 -> "1" [] d = 2 -> "2" [] d = 3 -> "3"
      [] d = 4 -> "4" [] d = 5 -> "5" [] d = 6 -> "6" [] d = 7 -> "7"
      [] d = 8 -> "8" [] d = 9 -> "9"

RECURSIVE U64ToString(_)
U64ToString(n) ==
    IF n < 10 THEN DigitChar(n)
    ELSE U64ToString(n \div 10) \o DigitChar(n % 10)

(***************************************************************************)
(* Typed reads of one field of a JSON object, as the Deserialize that      *)
(* serde derives performs them: a String or u64 field must be present and  *)
(* of its JSON type, an Option field is None when missing or null.         *)
(***************************************************************************)
StringOk(o, k) == k \in DOMAIN o /\ o[k].j = "string"

U64Ok(o, k) == k \in DOMAIN o /\ o[k].j = "number" /\ o[k].n >= 0

\* variant: the field declared String instead of Option<String>
OptStringOkRequired(o, k) == k \in DOMAIN o /\ o[k].j = "string"

OptStringOk(o, k) == k \notin DOMAIN o \/ o[k].j \in {"null", "string"}

OptStringVal(o, k) ==
    IF k \in DOMAIN o /\ o[k].j = "string" THEN Some(o[k].s) ELSE None

OptU64Ok(o, k) ==
    k \notin DOMAIN o \/ o[k].j = "null" \/ (o[k].j = "number" /\ o[k].n >= 0)

OptU64Val(o, k) ==
    IF k \in DOMAIN o /\ o[k].j = "number" THEN Some(o[k].n) ELSE None

(***************************************************************************)
(* song::Song and its decode (the song module).                            *)
(***************************************************************************)
SongFromFields(o, id) ==
    IF id.ok
    THEN Ok([id |-> id.v, title |-> o["title"].s, duration |-> o["duration"].n])
    ELSE Err(DecodeError)

SongDeserialize(v) ==
    IF v.j # "object" THEN Err(DecodeError)
    ELSE IF ~(StringOk(v.o, "id") /\ StringOk(v.o, "title") /\ U64Ok(v.o, "duration"))
    THEN Err(DecodeError)
    ELSE SongFromFields(v.o, ParseU64(v.o["id"].s))

\* Vec<song::Song>: every element of the array through the song decode
DecodeSongs(a) == [i \in 1..Len(a) |-> SongDeserialize(a[i])]

AllOk(results) == \A i \in 1..Len(results) : results[i].kind = "Ok"

Values(results) == [i \in 1..Len(results) |-> results[i].v]

OptSongs(o, k) ==
    IF k \in DOMAIN o /\ o[k].j = "array" THEN Some(DecodeSongs(o[k].a)) ELSE None

OptSongsOk(o, k, decoded) ==
    \/ k \notin DOMAIN o
    \/ o[k].j = "null"
    \/ o[k].j = "array" /\ AllOk(decoded.v)

OptSongsVal(decoded) ==
    IF decoded.some THEN Some(Values(decoded.v)) ELSE None

(***************************************************************************)
(* AlbumSerde, "the struct matching exactly what serde expects".  A JSON   *)
(* object is read by field name and fields that AlbumSerde does not name   *)
(* are skipped; a JSON array is read as the fields in declaration order    *)
(* and must have exactly that many elements; any other value is an error.  *)
(***************************************************************************)
AlbumSerdeFields ==
    <<"id", "name", "artist", "artistId", "coverArt", "songCount",
      "duration", "created", "year", "genre", "song">>

AlbumSerdeFromFields(o, song) ==
    IF /\ StringOk(o, "id")
       /\ StringOk(o, "name")
       /\ OptStringOk(o, "artist")
       /\ OptStringOk(o, "artistId")
       /\ OptStringOk(o, "coverArt")
       /\ U64Ok(o, "songCount")
       /\ U64Ok(o, "duration")
       /\ StringOk(o, "created")
       /\ OptU64Ok(o, "year")
       /\ OptStringOk(o, "genre")
       /\ OptSongsOk(o, "song", song)
    THEN Ok([id |-> o["id"].s,
             name |-> o["name"].s,
             artist |-> OptStringVal(o, "artist"),
             artistId |-> OptStringVal(o, "artistId"),
             coverArt |-> OptStringVal(o, "coverArt"),
             songCount |-> o["songCount"].n,
             duration |-> o["duration"].n,
             created |-> o["created"].s,
             year |-> OptU64Val(o, "year"),
             genre |-> OptStringVal(o, "genre"),
             song |-> OptSongsVal(song)])
    ELSE Err(DecodeError)

AlbumSerdeFromObject(o) == AlbumSerdeFromFields(o, OptSongs(o, "song"))

\* the elements of a JSON array under the names of the fields they are read into
Positional(a) ==
    [k \in {AlbumSerdeFields[i] : i \in 1..Len(AlbumSerdeFields)} |->
        a[CHOOSE i \in 1..Len(AlbumSerdeFields) : AlbumSerdeFields[i] = k]]

AlbumSerdeDeserialize(v) ==
    IF v.j = "object" \/ (v.j = "array" /\ Len(v.a) = Len(AlbumSerdeFields))
    THEN AlbumSerdeFromObject(IF v.j = "object" THEN v.o ELSE Positional(v.a))
    ELSE Err(DecodeError)

(***************************************************************************)
(* impl Deserialize for Album: AlbumSerde first, whose error is returned;  *)
(* then id and artistId are parsed and unwrapped, which panics on a text   *)
(* that str::parse rejects.                                                *)
(***************************************************************************)
OptUnwrapOr(opt, default) == IF opt.some THEN opt.v ELSE default

OptParseU64(opt) == IF opt.some THEN ParseU64(opt.v) ELSE [ok |-> TRUE]

\* variant: the nested songs cut down to the declared song count
AlbumOfTruncating(raw, id, artist_id) ==
    IF ~id.ok \/ ~artist_id.ok THEN Panic
    ELSE Ok([id |-> id.v,
             name |-> raw.name,
             artist |-> raw.artist,
             artist_id |-> IF raw.artistId.some THEN Some(artist_id.v) ELSE None,
             cover_id |-> raw.coverArt,
             duration |-> raw.duration,
             year |-> raw.year,
             genre |-> raw.genre,
             song_count |-> raw.songCount,
             songs |-> IF raw.song.some /\ Len(raw.song.v) > raw.songCount
                       THEN SubSeq(raw.song.v, 1, raw.songCount)
                       ELSE OptUnwrapOr(raw.song, <<>>)])

\* the Album { .. } expression: id and artist_id are the results of
\* raw.id.parse() and of raw.artistId's parse(), unwrapped
AlbumOf(raw, id, artist_id) ==
    IF ~id.ok \/ ~artist_id.ok THEN Panic
    ELSE Ok([id |-> id.v,
             name |-> raw.name,
             artist |-> raw.artist,
             artist_id |-> IF raw.artistId.some THEN Some(artist_id.v) ELSE None,
             cover_id |-> raw.coverArt,
             duration |-> raw.duration,
             year |-> raw.year,
             genre |-> raw.genre,
             song_count |-> raw.songCount,
             songs |-> OptUnwrapOr(raw.song, <<>>)])

AlbumFromSerde(raw) ==
    IF raw.kind = "Err" THEN raw
    ELSE AlbumOf(raw.v, ParseU64(raw.v.id), OptParseU64(raw.v.artistId))

AlbumDeserialize(v) == AlbumFromSerde(AlbumSerdeDeserialize(v))

(***************************************************************************)
(* JSON values the server may send.                                        *)
(***************************************************************************)
Absent == [j |-> "absent"]

\* a JSON object with the keys of c that are not Absent
JObject(c) == JObj([k \in {x \in DOMAIN c : c[x].j # "absent"} |-> c[k]])

\* "18446744073709551616", u64::MAX + 1
TooBigText == <<"1","8","4","4","6","7","4","4","0","7","3","7","0","9","5","5","1","6","1","6">>

SongJson(id, title, duration) ==
    JObject([id |-> JStr(id), title |-> JStr(title), duration |-> JNum(duration)])

GoodSongJsons ==
    {SongJson(<<"2", "7">>, <<"B", "e", "l">>, 198),
     SongJson(<<"3", "1">>, <<"D", "o", "n">>, 172)}

BadSongJson == JObject([id |-> JStr(<<"2", "9">>), duration |-> JNum(303)])

SongJsons == GoodSongJsons \cup {BadSongJson}

SongArrays == UNION {[1..n -> SongJsons] : n \in 0..MaxSongs}

IdOptions ==
    {Absent, JStr(<<"0", "7">>), JStr(<<"+", "2">>), JStr(<<>>),
     JStr(<<"x">>), JStr(TooBigText), JNum(1)}

NameOptions == {Absent, JStr(<<"B">>), JNum(0)}

SongCountOptions == {Absent, JStr(<<"9">>)} \cup {JNum(n) : n \in 0..MaxCount}

DurationOptions == {Absent, JNum(1920), JNum(-1)}

CreatedOptions == {Absent, JStr(<<"2", "0", "1", "7">>)}

ArtistIdOptions == {Absent, JStr(<<"1">>), JStr(<<"a", "r">>), JNum(1)}

SongOptions == {Absent, JNull} \cup {JArr(a) : a \in SongArrays}

\* the fields the decode only carries over, and one that AlbumSerde does not name
OtherFieldOptions ==
    {[artist |-> Absent, coverArt |-> Absent, year |-> Absent, genre |-> Absent,
      playCount |-> Absent],
     [artist |-> JStr(<<"M">>), coverArt |-> JStr(<<"a", "l">>), year |-> JNum(2017),
      genre |-> JStr(<<"r">>), playCount |-> JNum(2223)],
     [artist |-> JNull, coverArt |-> Absent, year |-> JNull, genre |-> Absent,
      playCount |-> JNum(2223)],
     [artist |-> JStr(<<"M">>), coverArt |-> Absent, year |-> JStr(<<"2", "0", "1", "7">>),
      genre |-> Absent, playCount |-> Absent]}

AlbumJson(c, other) ==
    JObject([k \in DOMAIN c \cup DOMAIN other |->
                IF k \in DOMAIN c THEN c[k] ELSE other[k]])

\* objects that vary every field but the nested songs
FrameObjects ==
    {AlbumJson(c, other) :
        c \in [id : IdOptions, name : NameOptions, songCount : SongCountOptions,
               duration : DurationOptions, created : CreatedOptions,
               artistId : ArtistIdOptions, song : {Absent, JArr(<<>>)}],
        other \in OtherFieldOptions}

\* objects that vary the nested songs against the declared count
SongObjects ==
    {AlbumJson(c, other) :
        c \in [id : {JStr(<<"0", "7">>), JStr(<<"x">>)}, name : {JStr(<<"B">>)},
               songCount : SongCountOptions, duration : {JNum(1920)},
               created : CreatedOptions, artistId : {Absent, JStr(<<"1">>)},
               song : SongOptions],
        other \in OtherFieldOptions}

AlbumObjects == FrameObjects \cup SongObjects

\* the fields of AlbumSerde in declaration order, as a JSON array
PositionalAlbum ==
    JArr(<<JStr(<<"7">>), JStr(<<"B">>), JNull, JNull, JNull, JNum(0), JNum(1920),
           JStr(<<"2", "0", "1", "7">>), JNull, JNull, JNull>>)

DecodeInputs ==
    AlbumObjects \cup {JNull, JStr(<<"B">>), JArr(<<>>), PositionalAlbum}

(***************************************************************************)
(* The decode on its own: serde_json::from_value::<Album>(json).           *)
(***************************************************************************)
InitDecode ==
    /\ call \in {[op |-> "from_value", json |-> v] : v \in DecodeInputs}
    /\ result = NotReturned
    /\ held = None
    /\ sent = <<>>
    /\ reply = <<>>
    /\ decodes = 0
    /\ nsongs = 0

FromValue ==
    /\ call.op = "from_value"
    /\ result = NotReturned
    /\ result' = AlbumDeserialize(call.json)
    /\ decodes' = decodes + 1
    /\ UNCHANGED <<held, call, sent, reply, nsongs>>

NextDecode == FromValue

SpecDecode == InitDecode /\ [][NextDecode]_vars

(***************************************************************************)
(* ListType and its Display.                                               *)
(***************************************************************************)
ListType ==
    {"AlphaByArtist", "AlphaByName", "Frequent", "Highest", "Newest", "Random",
     "Recent", "Starred"}

ListTypeToString(t) ==
    CASE t = "AlphaByArtist" -> "alphabeticalByArtist"
      [] t = "AlphaByName" -> "alphabeticalByName"
      [] t = "Frequent" -> "frequent"
      [] t = "Highest" -> "highest"
      [] t = "Newest" -> "newest"
      [] t = "Random" -> "random"
      [] t = "Recent" -> "recent"
      [] t = "Starred" -> "starred"

(***************************************************************************)
(* query::Query, the ordered parameters of a request, and util::map_str.   *)
(***************************************************************************)
QueryNew == <<>>

QueryArg(q, key, value) == Append(q, <<key, value>>)

QueryMaybeArg(q, key, value) ==
    IF value.some THEN Append(q, <<key, value.v>>) ELSE q

QueryBuild(q) == q

QueryWith(key, value) == QueryBuild(QueryArg(QueryNew, key, U64ToString(value)))

MapStr(v) == IF v.some THEN Some(U64ToString(v.v)) ELSE None

(***************************************************************************)
(* Sunk::get: one request to the server, answered by a JSON value or by a  *)
(* transport error.                                                        *)
(***************************************************************************)
Request(name, params) == [name |-> name, params |-> params]

\* track lists: the good songs in any order, none twice
TrackLists ==
    {a \in SongArrays :
        /\ \A i \in 1..Len(a) : a[i] \in GoodSongJsons
        /\ \A i, k \in 1..Len(a) : a[i] = a[k] => i = k}

NoOtherFields ==
    [artist |-> Absent, coverArt |-> Absent, year |-> Absent, genre |-> Absent,
     playCount |-> Absent]

AlbumReply(id, count, created, artistId, song) ==
    AlbumJson([id |-> id, name |-> JStr(<<"B">>), songCount |-> JNum(count),
               duration |-> JNum(1920), created |-> created,
               artistId |-> artistId, song |-> song], NoOtherFields)

CreatedText == JStr(<<"2", "0", "1", "7">>)

\* bodies of a getAlbum response
AlbumReplies ==
    {AlbumReply(JStr(<<"1", "2">>), n, CreatedText, Absent, song) :
        n \in 0..MaxCount, song \in {Absent} \cup {JArr(a) : a \in TrackLists}}
    \cup {AlbumReply(JStr(<<"x">>), 0, CreatedText, Absent, Absent),
          AlbumReply(JStr(<<"1", "2">>), 0, CreatedText, JStr(<<"a", "r">>), Absent),
          AlbumReply(JStr(<<"1", "2">>), 0, Absent, Absent, Absent),
          AlbumReply(JStr(<<"1", "2">>), 1, CreatedText, Absent, JArr(<<BadSongJson>>))}

\* elements of the `album` array of a getAlbumList2 response
ListElements ==
    {AlbumReply(JStr(<<"7">>), MaxCount, CreatedText, Absent, Absent),
     AlbumReply(JStr(<<"1", "2">>), 1, CreatedText, JStr(<<"1">>), Absent),
     AlbumReply(JStr(<<"x">>), 0, CreatedText, Absent, Absent),
     AlbumReply(JStr(<<"7">>), 0, Absent, Absent, Absent)}

AlbumArrays == UNION {[1..n -> ListElements] : n \in 0..MaxListLen}

\* bodies of a getAlbumList2 response
ListReplies ==
    {JObject([album |-> JArr(a)]) : a \in AlbumArrays}
    \cup {JObject([album |-> Absent]), JObject([album |-> JNull]),
          JObject([album |-> JStr(<<"B">>)]), JNull}

SunkGetReplies(name) ==
    {Err(e) : e \in TransportErrors}
    \cup {Ok(v) : v \in IF name = "getAlbum" THEN AlbumReplies ELSE ListReplies}

(***************************************************************************)
(* get_album: one "getAlbum" request, whose error is returned as it is,    *)
(* and the decode of its body.  rep is the answer of Sunk::get.            *)
(***************************************************************************)
Outcome(requests, returned, ndecodes) ==
    [sent |-> requests, result |-> returned, decodes |-> ndecodes]

get_album(id, rep) ==
    IF rep.kind = "Err"
    THEN Outcome(<<Request("getAlbum", QueryWith("id", id))>>, rep, 0)
    ELSE Outcome(<<Request("getAlbum", QueryWith("id", id))>>,
                 AlbumDeserialize(rep.v), 1)

(***************************************************************************)
(* get_albums: the parameters, one "getAlbumList2" request, and the decode *)
(* of the elements of res["album"] in order, which stops at the first      *)
(* element that does not decode.                                           *)
(***************************************************************************)
\* variant: an omitted offset is sent as "0"
GetAlbumsArgsDefaultOffset(list_type, size, offset, folder_id) ==
    QueryBuild(
        QueryMaybeArg(
            QueryArg(
                QueryMaybeArg(
                    QueryArg(QueryNew, "type", ListTypeToString(list_type)),
                    "size", MapStr(size)),
                "offset", OptUnwrapOr(MapStr(offset), "0")),
            "musicFolderId", MapStr(folder_id)))

GetAlbumsArgs(list_type, size, offset, folder_id) ==
    QueryBuild(
        QueryMaybeArg(
            QueryMaybeArg(
                QueryMaybeArg(
                    QueryArg(QueryNew, "type", ListTypeToString(list_type)),
                    "size", MapStr(size)),
                "offset", MapStr(offset)),
            "musicFolderId", MapStr(folder_id)))

\* res["album"].as_array(): indexing anything but an object, or a key that
\* is not there, gives Null; as_array is None for anything but an array
AlbumArrayOf(res) ==
    IF res.j = "object" /\ "album" \in DOMAIN res.o /\ res.o["album"].j = "array"
    THEN Some(res.o["album"].a)
    ELSE None

\* the loop over album_arr: push each decoded Album, leave at the first
\* element whose decode is an error (or panics)
RECURSIVE DecodeAlbumsFrom(_, _, _)
DecodeAlbumsStep(arr, i, albums, d) ==
    IF d.kind = "Ok" THEN DecodeAlbumsFrom(arr, i + 1, Append(albums, d.v))
    ELSE [result |-> d, decodes |-> i]

DecodeAlbumsFrom(arr, i, albums) ==
    IF i > Len(arr) THEN [result |-> Ok(albums), decodes |-> Len(arr)]
    ELSE DecodeAlbumsStep(arr, i, albums, AlbumDeserialize(arr[i]))

\* variant: a response without an array is an error
DecodeAlbumsOrMissing(arr) ==
    IF arr.some THEN DecodeAlbumsFrom(arr.v, 1, <<>>)
    ELSE [result |-> Err(DecodeError), decodes |-> 0]

DecodeAlbums(arr) ==
    IF arr.some THEN DecodeAlbumsFrom(arr.v, 1, <<>>)
    ELSE [result |-> Ok(<<>>), decodes |-> 0]

GetAlbumsOutcome(args, decoded) ==
    Outcome(<<Request("getAlbumList2", args)>>, decoded.result, decoded.decodes)

get_albums(list_type, size, offset, folder_id, rep) ==
    GetAlbumsOutcome(GetAlbumsArgs(list_type, size, offset, folder_id),
                     IF rep.kind = "Err" THEN [result |-> rep, decodes |-> 0]
                     ELSE DecodeAlbums(AlbumArrayOf(rep.v)))

(***************************************************************************)
(* Album::songs: the held songs when there are song_count of them, and the *)
(* songs of get_album(self.id) otherwise.  self is borrowed immutably.     *)
(***************************************************************************)
\* variant: fetches once more when the fresh Album is mismatched as well
SongsOfRefetching(fresh) ==
    [sent |-> IF /\ fresh.result.kind = "Ok"
                 /\ Len(fresh.result.v.songs) # fresh.result.v.song_count
              THEN fresh.sent \o fresh.sent
              ELSE fresh.sent,
     result |-> IF fresh.result.kind = "Ok" THEN Ok(fresh.result.v.songs)
                ELSE fresh.result,
     decodes |-> fresh.decodes]

SongsOf(fresh) ==
    [sent |-> fresh.sent,
     result |-> IF fresh.result.kind = "Ok" THEN Ok(fresh.result.v.songs)
                ELSE fresh.result,
     decodes |-> fresh.decodes]

\* variant: fetches without comparing the held songs with song_count
songsAlwaysFetching(self, rep) == SongsOf(get_album(self.id, rep))

songs(self, rep) ==
    IF Len(self.songs) # self.song_count
    THEN SongsOf(get_album(self.id, rep))
    ELSE Outcome(<<>>, Ok(self.songs), 0)

\* variant: the fetched songs are stored in the Album
SelfAfterSongsCaching(self, outcome) ==
    IF outcome.result.kind = "Ok" THEN [self EXCEPT !.songs = outcome.result.v]
    ELSE self

SelfAfterSongs(self, outcome) == self

(***************************************************************************)
(* The client: a caller that makes the calls one after the other, takes    *)
(* what a call returned before it makes the next one, and may keep one     *)
(* Album that a call returned.  A panic ends the program.                  *)
(***************************************************************************)
AlbumIds == {7, 12}

ArgOptions == {None} \cup {Some(n) : n \in 0..MaxArg}

NoCall == [op |-> "none"]

Idle == call = NoCall

Init ==
    /\ held = None
    /\ call = NoCall
    /\ sent = <<>>
    /\ reply = <<>>
    /\ result = NotReturned
    /\ decodes = 0
    /\ nsongs = 0

\* the call c has sent its requests, got the replies and come to its end
Ends(c, replies, out) ==
    /\ call' = c
    /\ sent' = out.sent
    /\ reply' = IF out.sent = <<>> THEN <<>> ELSE replies
    /\ result' = out.result
    /\ decodes' = out.decodes

CallGetAlbum ==
    /\ Idle
    /\ \E id \in AlbumIds, rep \in SunkGetReplies("getAlbum") :
          Ends([op |-> "get_album", id |-> id], <<rep>>, get_album(id, rep))
    /\ UNCHANGED <<held, nsongs>>

CallGetAlbums ==
    /\ Idle
    /\ \E list_type \in ListType, size \in ArgOptions, offset \in ArgOptions,
          folder_id \in ArgOptions, rep \in SunkGetReplies("getAlbumList2") :
          Ends([op |-> "get_albums", list_type |-> list_type, size |-> size,
                offset |-> offset, folder_id |-> folder_id],
               <<rep>>,
               get_albums(list_type, size, offset, folder_id, rep))
    /\ UNCHANGED <<held, nsongs>>

SongsEnds(self, replies, out) ==
    /\ Ends([op |-> "songs", self |-> self], replies, out)
    /\ held' = Some(SelfAfterSongs(self, out))

CallSongs ==
    /\ Idle
    /\ held.some
    /\ nsongs < MaxSongsCalls
    /\ \E rep \in SunkGetReplies("getAlbum") :
          SongsEnds(held.v, <<rep>>, songs(held.v, rep))
    /\ nsongs' = nsongs + 1

Returned ==
    /\ result.kind \in {"Ok", "Err"}
    /\ call' = NoCall
    /\ sent' = <<>>
    /\ reply' = <<>>
    /\ result' = NotReturned
    /\ decodes' = 0

\* the caller keeps the Album, or one of the Albums, that the call returned
Hold ==
    /\ Returned
    /\ result.kind = "Ok"
    /\ \/ call.op = "get_album" /\ held' = Some(result.v)
       \/ call.op = "get_albums" /\ \E i \in 1..Len(result.v) : held' = Some(result.v[i])
    /\ nsongs' = 0

\* the caller drops what the call returned
Drop ==
    /\ Returned
    /\ UNCHANGED <<held, nsongs>>

Next == CallGetAlbum \/ CallGetAlbums \/ CallSongs \/ Hold \/ Drop

Spec == Init /\ [][Next]_vars

(***************************************************************************)
(* Properties of the decode.                                               *)
(***************************************************************************)
Decoded == call.op = "from_value" /\ result # NotReturned

HasType(o, k, t) == k \in DOMAIN o /\ o[k].j = t

IsNatural(o, k) == HasType(o, k, "number") /\ o[k].n >= 0

MissingOrNullOr(o, k, t) == k \notin DOMAIN o \/ o[k].j \in {"null", t}

\* an identifier text that str::parse::<u64> accepts
ValidIdentifier(s) == ParseU64(s).ok

SongsDecodable(o) ==
    \/ MissingOrNullOr(o, "song", "absent")
    \/ /\ HasType(o, "song", "array")
       /\ \A i \in 1..Len(o["song"].a) : SongDeserialize(o["song"].a[i]).kind = "Ok"

OptionalsWellTyped(o) ==
    /\ MissingOrNullOr(o, "artist", "string")
    /\ MissingOrNullOr(o, "coverArt", "string")
    /\ MissingOrNullOr(o, "genre", "string")
    /\ "year" \notin DOMAIN o \/ o["year"].j = "null" \/ IsNatural(o, "year")
    /\ \/ MissingOrNullOr(o, "artistId", "absent")
       \/ HasType(o, "artistId", "string") /\ ValidIdentifier(o["artistId"].s)
    /\ SongsDecodable(o)

\* a text of decimal digits and nothing else
DecimalDigits(s) == Len(s) > 0 /\ \A i \in 1..Len(s) : s[i] \in Digits

FourRequiredWellFormed(o) ==
    /\ HasType(o, "id", "string") /\ ValidIdentifier(o["id"].s)
    /\ HasType(o, "name", "string")
    /\ IsNatural(o, "duration")
    /\ IsNatural(o, "songCount")

FourRequiredBroken(o) ==
    \/ ~HasType(o, "id", "string")
    \/ ~HasType(o, "name", "string")
    \/ ~IsNatural(o, "duration")
    \/ ~IsNatural(o, "songCount")

MissingOptionalsAbsent(o, album) ==
    /\ "artist" \notin DOMAIN o => album.artist = None
    /\ "artistId" \notin DOMAIN o => album.artist_id = None
    /\ "coverArt" \notin DOMAIN o => album.cover_id = None
    /\ "year" \notin DOMAIN o => album.year = None
    /\ "genre" \notin DOMAIN o => album.genre = None
    /\ "song" \notin DOMAIN o => album.songs = <<>>

BadIdentifier(o) ==
    \/ HasType(o, "id", "string") /\ ~ValidIdentifier(o["id"].s)
    \/ HasType(o, "artistId", "string") /\ ~ValidIdentifier(o["artistId"].s)

\* C1: a payload whose id, or whose artistId when present, is a string that
\* is not a valid unsigned integer is decoded to a DecodeError returned to
\* the caller: no Album is produced and the decode does not panic.
C1_BadIdentifierIsDecodeError ==
    (Decoded /\ call.json.j = "object" /\ BadIdentifier(call.json.o))
        => result = Err(DecodeError)

C10_SongsCarriedOver ==
    (Decoded /\ call.json.j = "object" /\ result.kind = "Ok") =>
        LET o == call.json.o
        IN  /\ result.v.song_count = o["songCount"].n
            /\ HasType(o, "song", "array") =>
                   /\ Len(result.v.songs) = Len(o["song"].a)
                   /\ \A i \in 1..Len(o["song"].a) :
                          result.v.songs[i] = SongDeserialize(o["song"].a[i]).v
            /\ "song" \notin DOMAIN o => result.v.songs = <<>>

\* an Album has been decoded that holds two different songs and declares fewer
C10_Witness ==
    /\ Decoded
    /\ result.kind = "Ok"
    /\ Len(result.v.songs) = 2
    /\ result.v.songs[1] # result.v.songs[2]
    /\ result.v.song_count < 2

(***************************************************************************)
(* Properties of the retrieval operations and of Album::songs.             *)
(***************************************************************************)
Mismatched(album) == Len(album.songs) # album.song_count

\* the decimal text of the small numbers, spelled out
DecimalText(n) ==
    CASE n = 0 -> "0" [] n = 1 -> "1" [] n = 2 -> "2" [] n = 7 -> "7"
      [] n = 12 -> "12"

\* C2: Album::songs on an Album that holds more or fewer songs than its
\* song_count sends exactly one request, "getAlbum" with the Album's id as
\* the only parameter, and when the call succeeds it returns the songs of
\* the Album decoded from the response, also when that Album is mismatched
\* again.
C2_MismatchRefetchesOnce ==
    (call.op = "songs" /\ Mismatched(call.self)) =>
        /\ sent = <<Request("getAlbum", <<<<"id", DecimalText(call.self.id)>>>>)>>
        /\ Len(reply) = 1
        /\ result.kind = "Ok" =>
               /\ reply[1].kind = "Ok"
               /\ result.v = AlbumDeserialize(reply[1].v).v.songs

\* a re-fetch has returned the songs of a fresh Album that is mismatched again
C2_Witness ==
    /\ call.op = "songs"
    /\ Mismatched(call.self)
    /\ result.kind = "Ok"
    /\ Len(result.v) = 1
    /\ AlbumDeserialize(reply[1].v).v.song_count = 2
    /\ Len(sent) = 1

\* C3: Album::songs on an Album that holds song_count songs sends no
\* request, succeeds, and returns the held songs, equal in every position.
C3_CompleteIsReturnedAsHeld ==
    (call.op = "songs" /\ ~Mismatched(call.self)) =>
        /\ sent = <<>>
        /\ result.kind = "Ok"
        /\ Len(result.v) = Len(call.self.songs)
        /\ \A i \in 1..Len(result.v) : result.v[i] = call.self.songs[i]

\* the songs of an Album that holds both of its two songs have been returned
C3_Witness ==
    /\ call.op = "songs"
    /\ call.self.song_count = 2
    /\ Len(call.self.songs) = 2
    /\ result.kind = "Ok"

ListKeyNotAnArray(res) ==
    \/ res.j # "object"
    \/ "album" \notin DOMAIN res.o
    \/ res.o["album"].j # "array"

\* C4: when the request of get_albums succeeds and the response has no
\* "album" key, or one whose value is not an array, get_albums returns an
\* empty list of Albums, not an error, whatever its arguments.
C4_NoArrayIsEmptyList ==
    (call.op = "get_albums" /\ reply[1].kind = "Ok" /\ ListKeyNotAnArray(reply[1].v))
        => result = Ok(<<>>)

\* get_albums with all optional arguments has got a response whose "album"
\* is a string
C4_Witness ==
    /\ call.op = "get_albums"
    /\ call.size.some /\ call.offset.some /\ call.folder_id.some
    /\ reply[1].kind = "Ok"
    /\ reply[1].v.j = "object"
    /\ "album" \in DOMAIN reply[1].v.o
    /\ reply[1].v.o["album"].j = "string"
    /\ result.kind = "Ok"

\* C5: when the "album" key of the response holds an array, get_albums
\* returns either one Album for each element, in the order of the array, or
\* an error.
C5_AllAlbumsOrError ==
    (call.op = "get_albums" /\ reply[1].kind = "Ok" /\ ~ListKeyNotAnArray(reply[1].v)) =>
        LET arr == reply[1].v.o["album"].a
        IN  \/ result.kind = "Err"
            \/ /\ result.kind = "Ok"
               /\ Len(result.v) = Len(arr)
               /\ \A i \in 1..Len(arr) : Ok(result.v[i]) = AlbumDeserialize(arr[i])

ParamKeys(params) == {params[i][1] : i \in 1..Len(params)}

ParamValue(params, key) ==
    params[CHOOSE i \in 1..Len(params) : params[i][1] = key][2]

SuppliedKeys(c) ==
    {"type"}
    \cup (IF c.size.some THEN {"size"} ELSE {})
    \cup (IF c.offset.some THEN {"offset"} ELSE {})
    \cup (IF c.folder_id.some THEN {"musicFolderId"} ELSE {})

\* C6: get_albums sends one "getAlbumList2" request whose parameters are
\* `type`, with the text of the classification, and `size`, `offset` and
\* `musicFolderId` for exactly the arguments that were supplied, each once
\* and with the decimal text of its value; an omitted argument has no key.
C6_ParametersAsSupplied ==
    call.op = "get_albums" =>
        /\ Len(sent) = 1
        /\ sent[1].name = "getAlbumList2"
        /\ LET p == sent[1].params
           IN  /\ ParamKeys(p) = SuppliedKeys(call)
               /\ Len(p) = Cardinality(SuppliedKeys(call))
               /\ ParamValue(p, "type") = ListTypeToString(call.list_type)
               /\ call.size.some => ParamValue(p, "size") = DecimalText(call.size.v)
               /\ call.offset.some => ParamValue(p, "offset") = DecimalText(call.offset.v)
               /\ call.folder_id.some =>
                      ParamValue(p, "musicFolderId") = DecimalText(call.folder_id.v)
               /\ (~call.size.some /\ ~call.offset.some /\ ~call.folder_id.some)
                      => Len(p) = 1

\* get_albums has been called with an offset of 0 and nothing else
C6_Witness ==
    /\ call.op = "get_albums"
    /\ ~call.size.some
    /\ call.offset = Some(0)
    /\ ~call.folder_id.some
    /\ Len(sent[1].params) = 2

BodyFailsToDecode(c, res) ==
    IF c.op = "get_albums"
    THEN /\ ~ListKeyNotAnArray(res)
         /\ \E i \in 1..Len(res.o["album"].a) :
                AlbumDeserialize(res.o["album"].a[i]).kind # "Ok"
    ELSE AlbumDeserialize(res).kind # "Ok"

\* C8: get_album, get_albums and Album::songs on a mismatched Album send at
\* most one request; when it fails with a transport error they return that
\* error and decode nothing; when it succeeds and the body does not decode
\* they return a DecodeError.
C8_ErrorsAreReturned ==
    (\/ call.op \in {"get_album", "get_albums"}
     \/ call.op = "songs" /\ Mismatched(call.self)) =>
        /\ Len(sent) <= 1
        /\ reply[1].kind = "Err" => (result = reply[1] /\ decodes = 0)
        /\ (reply[1].kind = "Ok" /\ BodyFailsToDecode(call, reply[1].v))
               => result = Err(DecodeError)

====
